---- MODULE Spec2Model ----
(***************************************************************************)
(* A model of jc/cli.py: the plugin discovery that runs when the module is *)
(* loaded, magic_parser(), run_user_command(), combined_exit_code() and    *)
(* main().                                                                 *)
(*                                                                         *)
(* A Python str is a sequence of one-character strings, so that slicing    *)
(* (arg[2:]), str.replace, shlex.quote and str.split are computed as the   *)
(* code computes them.  A list is a sequence.                              *)
(***************************************************************************)
EXTENDS Integers, Sequences, FiniteSets, TLC

VARIABLES
    argv,               \* sys.argv
    isdir,              \* os.path.isdir(local_parsers_dir)
    listdir,            \* os.listdir(local_parsers_dir), in the order returned
    plugin_magic,       \* info.magic_commands of each module under jcparsers/
    parsers,            \* the module-level list `parsers`
    local_parsers,      \* the module-level list `local_parsers`
    pc,                 \* position in the module / in main()
    valid_command,      \* main(): locals set from magic_parser()'s tuple
    run_command,
    magic_found_parser,
    magic_options,
    magic_dict,         \* magic_parser(): the local dict, kept for inspection
    magic_stdout,       \* main(): locals set from run_user_command()'s tuple
    magic_stderr,
    magic_exit_code,
    spawned,            \* the argument lists given to subprocess.Popen, in order
    options,            \* main(): the local list `options`
    stdin_read,         \* whether sys.stdin.read() has been called
    parser,             \* main(): the module bound to the local `parser`
    parser_name,        \* main(): the local `parser_name`
    parse_raised,       \* whether parser.parse() raised
    stdout,             \* what was printed on sys.stdout, in order
    stderr,             \* what was printed on sys.stderr, in order
    exit_code,          \* the exit status of the process, once pc = "exit"
    exit_line,          \* the line of cli.py on which the process ended
    x, y, z,            \* arguments of combined_exit_code()
    xy, yz, xy_z, x_yz  \* its results

vars == <<argv, isdir, listdir, plugin_magic, parsers, local_parsers, pc,
          valid_command, run_command, magic_found_parser, magic_options,
          magic_dict, magic_stdout, magic_stderr, magic_exit_code, spawned,
          options, stdin_read, parser, parser_name, parse_raised, stdout,
          stderr, exit_code, exit_line, x, y, z, xy, yz, xy_z, x_yz>>

----------------------------------------------------------------------------
(* Bounds of the model *)

\* the number of arguments after argv[0]
MaxArgs == 2
\* the number of entries of the plugin directory
MaxFiles == 2
\* the largest argument given to combined_exit_code
MaxCode == 260

----------------------------------------------------------------------------
(* Python values *)

\* None, and the state of a local that was never assigned: neither is a
\* sequence of one-character strings
None == <<"<None>">>
Unbound == <<"<unbound>">>

\* the truth value of a str-or-None
Truthy(v) == v # None /\ v # <<>>

Min(a, b) == IF a < b THEN a ELSE b

Letters == {"a", "b", "c", "d", "e", "f", "g", "h", "i", "j", "k", "l", "m",
            "n", "o", "p", "q", "r", "s", "t", "u", "v", "w", "x", "y", "z"}
Digits == {"0", "1", "2", "3", "4", "5", "6", "7", "8", "9"}
\* the characters \w matches
WordChars == Letters \cup Digits \cup {"_"}
\* the characters shlex.quote leaves alone: [\w@%+=:,./-]
SafeChars == WordChars \cup {"@", "%", "+", "=", ":", ",", ".", "/", "-"}
\* the characters str.split() splits at
Whitespace == {" ", "\t", "\n"}

\* s.startswith(p)
startswith(s, p) == Len(s) >= Len(p) /\ SubSeq(s, 1, Len(p)) = p

\* v in l, for a list l
In(v, l) == \E i \in 1..Len(l) : l[i] = v

\* l.count(v)
count(l, v) == Cardinality({i \in 1..Len(l) : l[i] = v})

\* ' '.join(l)
RECURSIVE join(_)
join(l) ==
    IF l = <<>> THEN <<>>
    ELSE IF Len(l) = 1 THEN Head(l)
    ELSE Head(l) \o <<" ">> \o join(Tail(l))

\* s.replace(a, b) for a one-character a
RECURSIVE replace1(_, _, _)
replace1(s, a, b) ==
    IF s = <<>> THEN <<>>
    ELSE (IF Head(s) = a THEN b ELSE <<Head(s)>>) \o replace1(Tail(s), a, b)

\* s.replace('--', '')
RECURSIVE replace_dashdash(_)
replace_dashdash(s) ==
    IF Len(s) < 2 THEN s
    ELSE IF s[1] = "-" /\ s[2] = "-" THEN replace_dashdash(SubSeq(s, 3, Len(s)))
    ELSE <<Head(s)>> \o replace_dashdash(Tail(s))

\* shlex.quote(s)
shlex_quote(s) ==
    IF s = <<>> THEN <<"'", "'">>
    ELSE IF \A i \in 1..Len(s) : s[i] \in SafeChars THEN s
    ELSE <<"'">> \o replace1(s, "'", <<"'", "\"", "'", "\"", "'">>) \o <<"'">>

\* s.split(): the maximal runs of characters that are not whitespace
RECURSIVE split_from(_, _)
split_from(s, word) ==
    IF s = <<>> THEN (IF word = <<>> THEN <<>> ELSE <<word>>)
    ELSE IF Head(s) \in Whitespace
         THEN (IF word = <<>> THEN <<>> ELSE <<word>>) \o split_from(Tail(s), <<>>)
         ELSE split_from(Tail(s), Append(word, Head(s)))

split(s) == split_from(s, <<>>)

\* [f(e) for e in l] with f = shlex.quote
map_quote(l) == [i \in 1..Len(l) |-> shlex_quote(l[i])]

----------------------------------------------------------------------------
(* The catalogue and the installed modules *)

\* the list `parsers` as written in cli.py: three of its entries, in its order
builtin_parsers == << <<"d", "f">>, <<"d", "p", "k", "g", "-", "l">>, <<"w">> >>

JC_ERROR_EXIT == 100

\* parser_shortname(parser_argument)
parser_shortname(parser_argument) == SubSeq(parser_argument, 3, Len(parser_argument))

\* parser_argument(parser)
parser_argument(p) == <<"-", "-">> \o p

\* parser_mod_shortname(parser)
parser_mod_shortname(p) == replace1(replace_dashdash(p), "-", <<"_">>)

\* parser_module(parser): the module importlib.import_module is asked for
parser_module(p) ==
    LET shortname == parser_mod_shortname(p) IN
    [package |-> IF In(shortname, local_parsers) THEN "jcparsers." ELSE "jc.parsers.",
     name |-> shortname]

\* re.match(r'\w+\.py', name): a match at the start of name, not of all of it
re_match_py(name) ==
    \E k \in 1..Len(name) :
        /\ \A i \in 1..k : name[i] \in WordChars
        /\ Len(name) >= k + 3
        /\ SubSeq(name, k + 1, k + 3) = <<".", "p", "y">>

\* whether importlib.import_module(module) finds the module: the built-in
\* modules are jc/parsers/<name>.py, the plugins <data_dir>/jcparsers/<name>.py
importable(module) ==
    \/ /\ module.package = "jc.parsers."
       /\ \E i \in 1..Len(builtin_parsers) :
              module.name = parser_mod_shortname(builtin_parsers[i])
    \/ /\ module.package = "jcparsers."
       /\ isdir
       /\ \E i \in 1..Len(listdir) :
              /\ listdir[i].isfile
              /\ listdir[i].name = module.name \o <<".", "p", "y">>

\* the loop over os.listdir(local_parsers_dir) with the plugin remembered as
\* local only when its name is no built-in
RECURSIVE discover_no_override(_, _, _)
discover_no_override(names, lp, ps) ==
    IF names = <<>> THEN [local_parsers |-> lp, parsers |-> ps]
    ELSE LET f == Head(names)
             plugin_name == SubSeq(f.name, 1, Len(f.name) - 3)
         IN  IF re_match_py(f.name) /\ f.isfile
             THEN discover_no_override(Tail(names),
                      IF ~In(plugin_name, ps) THEN Append(lp, plugin_name) ELSE lp,
                      IF ~In(plugin_name, ps) THEN Append(ps, plugin_name) ELSE ps)
             ELSE discover_no_override(Tail(names), lp, ps)

\* the loop over os.listdir(local_parsers_dir)
RECURSIVE discover(_, _, _)
discover(names, lp, ps) ==
    IF names = <<>> THEN [local_parsers |-> lp, parsers |-> ps]
    ELSE LET f == Head(names)
             plugin_name == SubSeq(f.name, 1, Len(f.name) - 3)
         IN  IF re_match_py(f.name) /\ f.isfile
             THEN discover(Tail(names),
                      Append(lp, plugin_name),
                      IF ~In(plugin_name, ps) THEN Append(ps, plugin_name) ELSE ps)
             ELSE discover(Tail(names), lp, ps)

\* info.magic_commands of a module
magic_commands(module) ==
    IF module.package = "jcparsers." THEN plugin_magic[module.name]
    ELSE IF module.name = <<"d", "f">> THEN {<<"d", "f">>}
    ELSE IF module.name = <<"w">> THEN {<<"w">>}
    ELSE IF module.name = <<"d", "p", "k", "g", "_", "l">>
         THEN {<<"d", "p", "k", "g", " ", "-", "l">>}
    ELSE {}

\* about_jc()['parsers']: one entry per name of the catalogue
about_jc_parsers ==
    [i \in 1..Len(parsers) |->
        [name |-> parser_module(parsers[i]).name,
         argument |-> parser_argument(parsers[i]),
         magic_commands |-> magic_commands(parser_module(parsers[i]))]]

----------------------------------------------------------------------------
(* magic_parser *)

\* d.get(k, default)
get(d, k, default) == IF k \in DOMAIN d THEN d[k] ELSE default

\* a dict update that keeps the value of a key that is already present
dict_setdefault(d, keys, value) ==
    [k \in DOMAIN d \cup keys |-> IF k \in DOMAIN d THEN d[k] ELSE value]

\* d.update({k: value for k in keys})
dict_update(d, keys, value) ==
    [k \in DOMAIN d \cup keys |-> IF k \in keys THEN value ELSE d[k]]

\* the loop that fills magic_dict from about_jc()['parsers']
RECURSIVE fill_magic_dict(_, _)
fill_magic_dict(parser_info, d) ==
    IF parser_info = <<>> THEN d
    ELSE fill_magic_dict(Tail(parser_info),
             dict_update(d, Head(parser_info).magic_commands, Head(parser_info).argument))

\* the loop `for arg in list(args_given)` that pops the leading options
RECURSIVE find_options(_, _)
find_options(args_given, opts) ==
    IF args_given = <<>>
    THEN [parser_found |-> FALSE, args_given |-> args_given, options |-> opts]
    ELSE IF startswith(Head(args_given), <<"-", "-">>)
    THEN [parser_found |-> TRUE, args_given |-> args_given, options |-> opts]
    ELSE IF startswith(Head(args_given), <<"-">>)
    THEN find_options(Tail(args_given), opts \o Tail(Head(args_given)))
    ELSE [parser_found |-> FALSE, args_given |-> args_given, options |-> opts]

\* the lookup with the one-word command tried first
get_parser_one_word_first(d, one_word_command, two_word_command) ==
    get(d, one_word_command, get(d, two_word_command, None))

\* magic_dict.get(two_word_command, magic_dict.get(one_word_command))
get_parser(d, one_word_command, two_word_command) ==
    get(d, two_word_command, get(d, one_word_command, None))

\* return False, None, None, []
not_magic ==
    [valid_command |-> FALSE, run_command |-> None, found_parser |-> None,
     options |-> <<>>, magic_dict |-> <<>>]

\* magic_parser(args): the tuple returned, and the local magic_dict
magic_parser(args) ==
    IF Len(args) <= 1 \/ startswith(args[2], <<"-", "-">>) THEN not_magic
    ELSE LET found == find_options(split(join(map_quote(Tail(args)))), <<>>)
             args_given == found.args_given
         IN  IF found.parser_found THEN not_magic
             ELSE IF In("h", found.options) \/ In("a", found.options)
                     \/ In("v", found.options) THEN not_magic
             ELSE IF Len(args_given) = 0 THEN not_magic
             ELSE LET d == fill_magic_dict(about_jc_parsers, <<>>)
                      one_word_command == args_given[1]
                      two_word_command ==
                          join(SubSeq(args_given, 1, Min(2, Len(args_given))))
                      found_parser == get_parser(d, one_word_command, two_word_command)
                  IN  [valid_command |-> Truthy(found_parser),
                       run_command |-> args_given,
                       found_parser |-> found_parser,
                       options |-> found.options,
                       magic_dict |-> d]

\* combined_exit_code without the cap
combined_exit_code_uncapped(program_exit, jc_exit) == program_exit + jc_exit

\* combined_exit_code(program_exit, jc_exit)
combined_exit_code(program_exit, jc_exit) ==
    LET exit_code_sum == program_exit + jc_exit IN
    IF exit_code_sum > 255 THEN 255 ELSE exit_code_sum

----------------------------------------------------------------------------
(* The inputs of a run *)

\* the arguments a command line is made of
Tokens ==
    { <<"-", "-", "w">>, <<"-", "-", "d", "f">>,
      <<"-", "h">>, <<"-", "a">>, <<"-", "v">>, <<"-", "d">>, <<"-", "p", "w">>,
      <<"w">>, <<"d", "f">>, <<"a", " ", "b">> }

\* the entries a plugin directory is made of
Files ==
    { [name |-> <<"w", ".", "p", "y">>, isfile |-> TRUE],
      [name |-> <<"z", "z", ".", "p", "y">>, isfile |-> TRUE],
      [name |-> <<"x", ".", "t", "x", "t">>, isfile |-> TRUE] }

\* the names of the plugin modules
PluginNames ==
    { SubSeq(f.name, 1, Len(f.name) - 3) :
        f \in {g \in Files : re_match_py(g.name) /\ g.isfile} }

\* what a plugin may declare as its magic commands
PluginMagic == { {}, {<<"w">>}, {<<"w", " ", "d", "f">>} }

\* what the user's command may return, print and write to its stderr
ReturnCodes == {0, 1, 155, 156}
Outputs == { <<>>, <<"o", "\n">> }
Errors == { <<>>, <<"e", "\n">> }

SeqsUpTo(S, n) == UNION { [1..k -> S] : k \in 0..n }

Listings == { l \in SeqsUpTo(Files, MaxFiles) :
                \A i, j \in 1..Len(l) : i # j => l[i].name # l[j].name }

Present(l, n) == \E i \in 1..Len(l) : l[i].name = n \o <<".", "p", "y">>

InitLocals ==
    /\ parsers = builtin_parsers
    /\ local_parsers = <<>>
    /\ valid_command = FALSE
    /\ run_command = None
    /\ magic_found_parser = None
    /\ magic_options = <<>>
    /\ magic_dict = <<>>
    /\ magic_stdout = None
    /\ magic_stderr = None
    /\ magic_exit_code = 0
    /\ spawned = <<>>
    /\ options = <<>>
    /\ stdin_read = FALSE
    /\ parser = None
    /\ parser_name = Unbound
    /\ parse_raised = FALSE
    /\ stdout = <<>>
    /\ stderr = <<>>
    /\ exit_code = 0
    /\ exit_line = 0

Init ==
    /\ argv \in { <<<<"j", "c">>>> \o a : a \in SeqsUpTo(Tokens, MaxArgs) }
    /\ isdir \in BOOLEAN
    /\ listdir \in Listings
    /\ ~isdir => listdir = <<>>
    /\ plugin_magic \in [PluginNames -> PluginMagic]
    /\ \A n \in PluginNames : ~Present(listdir, n) => plugin_magic[n] = {}
    /\ pc = "import"
    /\ InitLocals
    /\ x = 0 /\ y = 0 /\ z = 0
    /\ xy = 0 /\ yz = 0 /\ xy_z = 0 /\ x_yz = 0

----------------------------------------------------------------------------
(* The steps of a run *)

error_message(text) == [kind |-> "error_message", text |-> text]
traceback(exception) == [kind |-> "traceback", exception |-> exception]

\* sys.exit(code) on the given line
Exit(code, line) ==
    /\ pc' = "exit"
    /\ exit_code' = code
    /\ exit_line' = line

\* an exception nothing catches: the interpreter prints the traceback and
\* the exit status is 1
Raise(exception, line) ==
    /\ stderr' = Append(stderr, traceback(exception))
    /\ Exit(1, line)

\* the module-level code: the plugin directory is scanned once
ImportModule ==
    /\ pc = "import"
    /\ LET r == IF isdir THEN discover(listdir, local_parsers, parsers)
                ELSE [local_parsers |-> local_parsers, parsers |-> parsers]
       IN  /\ local_parsers' = r.local_parsers
           /\ parsers' = r.parsers
    /\ pc' = "main"
    /\ UNCHANGED <<argv, isdir, listdir, plugin_magic, valid_command, run_command,
                   magic_found_parser, magic_options, magic_dict, magic_stdout,
                   magic_stderr, magic_exit_code, spawned, options, stdin_read,
                   parser, parser_name, parse_raised, stdout, stderr, exit_code,
                   exit_line, x, y, z, xy, yz, xy_z, x_yz>>

\* main(), "try magic syntax first": magic_parser, then run_user_command
MagicSyntax ==
    /\ pc = "main"
    /\ LET m == magic_parser(argv) IN
       /\ valid_command' = m.valid_command
       /\ run_command' = m.run_command
       /\ magic_found_parser' = m.found_parser
       /\ magic_options' = m.options
       /\ magic_dict' = m.magic_dict
       /\ IF m.valid_command
          THEN /\ spawned' = Append(spawned, m.run_command)
               /\ \/ \* subprocess.Popen raises: the program cannot be started
                     /\ Raise("OSError", 465)
                     /\ UNCHANGED <<magic_stdout, magic_stderr, magic_exit_code>>
                  \/ \E out \in Outputs, err \in Errors, returncode \in ReturnCodes :
                        /\ magic_stdout' = (IF out # <<>> THEN out ELSE <<"\n">>)
                        /\ magic_stderr' = err
                        /\ magic_exit_code' = returncode
                        /\ stderr' = IF err # <<>>
                                     THEN Append(stderr,
                                              [kind |-> "magic_stderr",
                                               text |-> SubSeq(err, 1, Len(err) - 1)])
                                     ELSE stderr
                        /\ pc' = "options"
                        /\ UNCHANGED <<exit_code, exit_line>>
          ELSE IF m.run_command = None
          THEN /\ pc' = "options"
               /\ UNCHANGED <<magic_stdout, magic_stderr, magic_exit_code, spawned,
                              stderr, exit_code, exit_line>>
          ELSE /\ stderr' = Append(stderr, error_message("parser not found"))
               /\ Exit(combined_exit_code(magic_exit_code, JC_ERROR_EXIT), 506)
               /\ UNCHANGED <<magic_stdout, magic_stderr, magic_exit_code, spawned>>
    /\ UNCHANGED <<argv, isdir, listdir, plugin_magic, parsers, local_parsers,
                   options, stdin_read, parser, parser_name, parse_raised, stdout,
                   x, y, z, xy, yz, xy_z, x_yz>>

\* the characters of every single-dash argument
RECURSIVE find_argv_options(_)
find_argv_options(args) ==
    IF args = <<>> THEN <<>>
    ELSE (IF startswith(Head(args), <<"-">>) /\ ~startswith(Head(args), <<"-", "-">>)
          THEN Tail(Head(args)) ELSE <<>>) \o find_argv_options(Tail(args))

\* main(), "set options"
SetOptions ==
    /\ pc = "options"
    /\ options' = options \o magic_options
                    \o (IF ~valid_command THEN find_argv_options(argv) ELSE <<>>)
    /\ pc' = "meta"
    /\ UNCHANGED <<argv, isdir, listdir, plugin_magic, parsers, local_parsers,
                   valid_command, run_command, magic_found_parser, magic_options,
                   magic_dict, magic_stdout, magic_stderr, magic_exit_code, spawned,
                   stdin_read, parser, parser_name, parse_raised, stdout, stderr,
                   exit_code, exit_line, x, y, z, xy, yz, xy_z, x_yz>>

\* the order of the tests with help_me tested before about
meta_operation_help_first(opts) ==
    IF In("h", opts) THEN "help"
    ELSE IF In("a", opts) THEN "about"
    ELSE IF In("v", opts) THEN "version"
    ELSE "none"

\* the order of the tests `if about:`, `if help_me:`, `if version_info:`
meta_operation(opts) ==
    IF In("a", opts) THEN "about"
    ELSE IF In("h", opts) THEN "help"
    ELSE IF In("v", opts) THEN "version"
    ELSE "none"

\* help_doc(options): the text returned, or the exception raised
RECURSIVE help_doc(_)
help_doc(args) ==
    IF args = <<>> THEN [raised |-> FALSE, text |-> [kind |-> "helptext"]]
    ELSE IF In(parser_shortname(Head(args)), parsers)
    THEN IF importable(parser_module(Head(args)))
         THEN [raised |-> FALSE,
               text |-> [kind |-> "doc_text", parser |-> parser_module(Head(args))]]
         ELSE [raised |-> TRUE, text |-> None]
    ELSE help_doc(Tail(args))

\* main(), `if about:`
About ==
    /\ pc = "meta"
    /\ meta_operation(options) = "about"
    /\ stdout' = Append(stdout, [kind |-> "about_jc"])
    /\ Exit(0, 536)
    /\ UNCHANGED <<argv, isdir, listdir, plugin_magic, parsers, local_parsers,
                   valid_command, run_command, magic_found_parser, magic_options,
                   magic_dict, magic_stdout, magic_stderr, magic_exit_code, spawned,
                   options, stdin_read, parser, parser_name, parse_raised, stderr,
                   x, y, z, xy, yz, xy_z, x_yz>>

\* main(), `if help_me:`
HelpMe ==
    /\ pc = "meta"
    /\ meta_operation(options) = "help"
    /\ LET doc == help_doc(argv) IN
       IF doc.raised
       THEN /\ Raise("ModuleNotFoundError", 359)
            /\ UNCHANGED stdout
       ELSE /\ stdout' = Append(stdout, doc.text)
            /\ Exit(0, 540)
            /\ UNCHANGED stderr
    /\ UNCHANGED <<argv, isdir, listdir, plugin_magic, parsers, local_parsers,
                   valid_command, run_command, magic_found_parser, magic_options,
                   magic_dict, magic_stdout, magic_stderr, magic_exit_code, spawned,
                   options, stdin_read, parser, parser_name, parse_raised,
                   x, y, z, xy, yz, xy_z, x_yz>>

\* main(), `if version_info:`
VersionInfo ==
    /\ pc = "meta"
    /\ meta_operation(options) = "version"
    /\ stdout' = Append(stdout, [kind |-> "versiontext"])
    /\ Exit(0, 544)
    /\ UNCHANGED <<argv, isdir, listdir, plugin_magic, parsers, local_parsers,
                   valid_command, run_command, magic_found_parser, magic_options,
                   magic_dict, magic_stdout, magic_stderr, magic_exit_code, spawned,
                   options, stdin_read, parser, parser_name, parse_raised, stderr,
                   x, y, z, xy, yz, xy_z, x_yz>>

\* main(), the test for missing input and `data = magic_stdout or sys.stdin.read()`
ReadInput ==
    /\ pc = "meta"
    /\ meta_operation(options) = "none"
    /\ \E isatty \in BOOLEAN :
          IF isatty /\ magic_stdout = None
          THEN /\ stderr' = Append(stderr, error_message("Missing piped data"))
               /\ Exit(combined_exit_code(magic_exit_code, JC_ERROR_EXIT), 551)
               /\ UNCHANGED stdin_read
          ELSE /\ stdin_read' = ~Truthy(magic_stdout)
               /\ pc' = "find"
               /\ UNCHANGED <<stderr, exit_code, exit_line>>
    /\ UNCHANGED <<argv, isdir, listdir, plugin_magic, parsers, local_parsers,
                   valid_command, run_command, magic_found_parser, magic_options,
                   magic_dict, magic_stdout, magic_stderr, magic_exit_code, spawned,
                   options, parser, parser_name, parse_raised, stdout,
                   x, y, z, xy, yz, xy_z, x_yz>>

\* the loop `for arg in sys.argv` of main(): whether it ended by break, the
\* argument it ended at, and parser_name as the loop leaves it
RECURSIVE find_parser(_, _)
find_parser(args, name) ==
    IF args = <<>> THEN [found |-> FALSE, arg |-> None, parser_name |-> name]
    ELSE IF In(parser_shortname(Head(args)), parsers)
    THEN [found |-> TRUE, arg |-> Head(args),
          parser_name |-> parser_shortname(Head(args))]
    ELSE find_parser(Tail(args), parser_shortname(Head(args)))

\* main(), "find the correct parser"
FindParser ==
    /\ pc = "find"
    /\ IF Truthy(magic_found_parser)
       THEN /\ UNCHANGED parser_name
            /\ IF importable(parser_module(magic_found_parser))
               THEN /\ parser' = parser_module(magic_found_parser)
                    /\ pc' = "parse"
                    /\ UNCHANGED <<stderr, exit_code, exit_line>>
               ELSE /\ Raise("ModuleNotFoundError", 557)
                    /\ UNCHANGED parser
       ELSE LET r == find_parser(argv, parser_name) IN
            /\ parser_name' = r.parser_name
            /\ IF ~r.found
               THEN /\ stderr' = Append(stderr,
                                     error_message("Missing or incorrect arguments"))
                    /\ Exit(combined_exit_code(magic_exit_code, JC_ERROR_EXIT), 572)
                    /\ UNCHANGED parser
               ELSE IF importable(parser_module(r.arg))
               THEN /\ parser' = parser_module(r.arg)
                    /\ pc' = "parse"
                    /\ UNCHANGED <<stderr, exit_code, exit_line>>
               ELSE /\ Raise("ModuleNotFoundError", 566)
                    /\ UNCHANGED parser
    /\ UNCHANGED <<argv, isdir, listdir, plugin_magic, parsers, local_parsers,
                   valid_command, run_command, magic_found_parser, magic_options,
                   magic_dict, magic_stdout, magic_stderr, magic_exit_code, spawned,
                   options, stdin_read, parse_raised, stdout,
                   x, y, z, xy, yz, xy_z, x_yz>>

\* main(), "parse the data" and "output the json"
Parse ==
    /\ pc = "parse"
    /\ \E raises \in BOOLEAN :
          /\ parse_raised' = raises
          /\ IF ~raises
             THEN /\ stdout' = Append(stdout, [kind |-> "json_out"])
                  /\ Exit(combined_exit_code(magic_exit_code, 0), 589)
                  /\ UNCHANGED stderr
             ELSE IF In("d", options)
             THEN /\ Raise("Exception", 580)
                  /\ UNCHANGED stdout
             ELSE IF parser_name = Unbound
             THEN /\ Raise("UnboundLocalError", 583)
                  /\ UNCHANGED stdout
             ELSE /\ stderr' = Append(stderr,
                                   [kind |-> "error_message",
                                    text |-> "parser could not parse the input data",
                                    parser_name |-> parser_name])
                  /\ Exit(combined_exit_code(magic_exit_code, JC_ERROR_EXIT), 585)
                  /\ UNCHANGED stdout
    /\ UNCHANGED <<argv, isdir, listdir, plugin_magic, parsers, local_parsers,
                   valid_command, run_command, magic_found_parser, magic_options,
                   magic_dict, magic_stdout, magic_stderr, magic_exit_code, spawned,
                   options, stdin_read, parser, parser_name,
                   x, y, z, xy, yz, xy_z, x_yz>>

Next ==
    \/ ImportModule
    \/ MagicSyntax
    \/ SetOptions
    \/ About
    \/ HelpMe
    \/ VersionInfo
    \/ ReadInput
    \/ FindParser
    \/ Parse

Spec == Init /\ [][Next]_vars

----------------------------------------------------------------------------
(* combined_exit_code on its own *)

InitCombine ==
    /\ argv = <<<<"j", "c">>>>
    /\ isdir = FALSE
    /\ listdir = <<>>
    /\ plugin_magic = [n \in PluginNames |-> {}]
    /\ InitLocals
    /\ pc = "combined_exit_code"
    /\ x \in 0..MaxCode
    /\ y \in 0..MaxCode
    /\ z \in {0, 1, JC_ERROR_EXIT, 255}
    /\ xy = 0 /\ yz = 0 /\ xy_z = 0 /\ x_yz = 0

\* combined_exit_code(x, y), and the two ways of combining x, y and z
Combine ==
    /\ pc = "combined_exit_code"
    /\ xy' = combined_exit_code(x, y)
    /\ yz' = combined_exit_code(y, z)
    /\ xy_z' = combined_exit_code(combined_exit_code(x, y), z)
    /\ x_yz' = combined_exit_code(x, combined_exit_code(y, z))
    /\ pc' = "returned"
    /\ UNCHANGED <<argv, isdir, listdir, plugin_magic, parsers, local_parsers,
                   valid_command, run_command, magic_found_parser, magic_options,
                   magic_dict, magic_stdout, magic_stderr, magic_exit_code, spawned,
                   options, stdin_read, parser, parser_name, parse_raised, stdout,
                   stderr, exit_code, exit_line, x, y, z>>

NextCombine == Combine

SpecCombine == InitCombine /\ [][NextCombine]_vars

----------------------------------------------------------------------------
(* Properties *)

\* main() has got past the call of magic_parser
AfterMagic == pc \notin {"import", "main", "combined_exit_code", "returned"}

\* main() has got past "find the correct parser"
AfterFind == pc = "parse" \/ (pc = "exit" /\ exit_line >= 566)

\* magic_parser got as far as building magic_dict
LookedUp == DOMAIN magic_dict # {}

is_flag(arg) ==
    /\ startswith(arg, <<"-", "-">>)
    /\ In(SubSeq(arg, 3, Len(arg)), parsers)

\* the arguments that are exactly --<name>, <name> in the catalogue
Flags == { i \in 1..Len(argv) : is_flag(argv[i]) }

FirstFlag == argv[CHOOSE i \in Flags : \A j \in Flags : i <= j]

\* the module a catalogue name stands for: the plugin of that name if there
\* is one, otherwise the built-in
module_of(name) ==
    LET n == replace1(name, "-", <<"_">>) IN
    [package |-> IF \E i \in 1..Len(local_parsers) : local_parsers[i] = n
                 THEN "jcparsers." ELSE "jc.parsers.",
     name |-> n]

\* C1: whenever parse() raised and no 'd' flag is set, the last line on stderr
\* is the friendly error naming the converter in use, and the exit code is
\* min(255, magic_exit_code + 100), in standard and in magic syntax alike.
C1_ParseFailureIsFriendly ==
    (pc = "exit" /\ parse_raised /\ ~In("d", options)) =>
        /\ exit_code = Min(255, magic_exit_code + JC_ERROR_EXIT)
        /\ stderr # <<>>
        /\ stderr[Len(stderr)].kind = "error_message"
        /\ stderr[Len(stderr)].text = "parser could not parse the input data"
        /\ module_of(stderr[Len(stderr)].parser_name) = parser

\* C2: in standard syntax the options are the characters of the single-dash
\* arguments, and the converter main() loads and help_doc() documents is the
\* one named by the first argument that is exactly --<name>; with no such
\* argument main() reports missing arguments and help_doc() gives the general
\* help.
C2_FirstFlagSelects ==
    (AfterMagic /\ run_command = None) =>
        /\ pc # "options" => options = find_argv_options(argv)
        /\ AfterFind =>
              IF Flags = {} THEN exit_line = 572
              ELSE parser = module_of(parser_shortname(FirstFlag))
        /\ (pc = "exit" /\ exit_line \in {359, 540}) =>
              IF Flags = {} THEN stdout = << [kind |-> "helptext"] >>
              ELSE stdout = << [kind |-> "doc_text",
                                parser |-> module_of(parser_shortname(FirstFlag))] >>

\* the built-in names for which the plugin directory holds a converter file
Shadowed ==
    { i \in 1..Len(builtin_parsers) :
        /\ isdir
        /\ \E j \in 1..Len(listdir) :
              /\ listdir[j].name = builtin_parsers[i] \o <<".", "p", "y">>
              /\ listdir[j].isfile
              /\ re_match_py(listdir[j].name) }

\* C3 as stated: a plugin named like a built-in leaves the name listed once
\* and parser_module() resolving to jc.parsers.<name>.
C3_PluginNeverShadows ==
    pc # "import" =>
        \A i \in Shadowed :
            /\ count(parsers, builtin_parsers[i]) = 1
            /\ parser_module(builtin_parsers[i]) =
                   [package |-> "jc.parsers.", name |-> builtin_parsers[i]]

\* C3 as amended: a plugin named like a built-in leaves the name listed once,
\* and parser_module() resolves to the plugin, jcparsers.<name>; that is the
\* module main() loads for --<name>.
C3_PluginOverrides ==
    pc # "import" =>
        \A i \in Shadowed :
            /\ count(parsers, builtin_parsers[i]) = 1
            /\ parser_module(builtin_parsers[i]) =
                   [package |-> "jcparsers.", name |-> builtin_parsers[i]]
            /\ (pc = "parse" /\ parser.name = builtin_parsers[i])
                   => parser.package = "jcparsers."

C3_Witness ==
    /\ pc = "parse"
    /\ Shadowed # {}
    /\ parser = [package |-> "jcparsers.", name |-> <<"w">>]

\* the entries of about_jc()['parsers'] that declare a phrase
Declaring(parser_info, phrase) ==
    { i \in 1..Len(parser_info) : phrase \in parser_info[i].magic_commands }

Phrases(parser_info) ==
    UNION { parser_info[i].magic_commands : i \in 1..Len(parser_info) }

\* C4 as stated: each declared phrase maps to the first converter, in
\* catalogue order, that declares it.
C4_FirstDeclarationWins ==
    LookedUp =>
        LET parser_info == about_jc_parsers IN
        /\ DOMAIN magic_dict = Phrases(parser_info)
        /\ \A phrase \in DOMAIN magic_dict :
              \E i \in Declaring(parser_info, phrase) :
                  /\ \A j \in Declaring(parser_info, phrase) : i <= j
                  /\ magic_dict[phrase] = parser_info[i].argument

\* C4 as amended: each declared phrase maps to the last converter, in
\* catalogue order, that declares it; a later converter overwrites an earlier
\* converter's entry.
C4_LastDeclarationWins ==
    LookedUp =>
        LET parser_info == about_jc_parsers IN
        /\ DOMAIN magic_dict = Phrases(parser_info)
        /\ \A phrase \in DOMAIN magic_dict :
              \E i \in Declaring(parser_info, phrase) :
                  /\ \A j \in Declaring(parser_info, phrase) : j <= i
                  /\ magic_dict[phrase] = parser_info[i].argument

C4_Witness ==
    /\ LookedUp
    /\ pc = "parse"
    /\ \E phrase \in DOMAIN magic_dict :
          /\ Cardinality(Declaring(about_jc_parsers, phrase)) >= 2
          /\ magic_found_parser = magic_dict[phrase]

\* the first word, and the first two words, of the command magic_parser returns
OneWord == run_command[1]
TwoWords == join(SubSeq(run_command, 1, Min(2, Len(run_command))))

\* C5: the converter magic_parser selects is the one registered for the first
\* two words of the command whenever that phrase is registered, the one
\* registered for the first word only when it is not, and none when neither
\* is; the module main() then loads is that converter's.
C5_TwoWordsFirst ==
    LookedUp =>
        /\ TwoWords \in DOMAIN magic_dict => magic_found_parser = magic_dict[TwoWords]
        /\ (TwoWords \notin DOMAIN magic_dict /\ OneWord \in DOMAIN magic_dict)
              => magic_found_parser = magic_dict[OneWord]
        /\ (TwoWords \notin DOMAIN magic_dict /\ OneWord \notin DOMAIN magic_dict)
              => (magic_found_parser = None /\ ~valid_command)
        /\ (pc = "parse" /\ magic_found_parser # None)
              => parser = module_of(parser_shortname(magic_found_parser))

C5_Witness ==
    /\ LookedUp
    /\ pc = "parse"
    /\ Len(run_command) >= 2
    /\ TwoWords \in DOMAIN magic_dict
    /\ OneWord \in DOMAIN magic_dict
    /\ magic_dict[OneWord] # magic_dict[TwoWords]
    /\ magic_found_parser = magic_dict[TwoWords]

\* jc -h -a
HelpAbout == << <<"j", "c">>, <<"-", "h">>, <<"-", "a">> >>

\* C6 as stated: for `jc -h -a` magic_parser returns non-magic and the payload
\* printed is the help text.
C6_HelpBeforeAbout ==
    (argv = HelpAbout /\ pc = "exit") =>
        /\ ~valid_command
        /\ run_command = None
        /\ stdout = << [kind |-> "helptext"] >>

\* C6 as amended: for `jc -h -a` magic_parser returns non-magic, no command is
\* run, and about takes precedence over help: the payload printed is the
\* about metadata, and the exit code is 0.
C6_AboutBeforeHelp ==
    argv = HelpAbout =>
        /\ AfterMagic => (~valid_command /\ run_command = None /\ spawned = <<>>)
        /\ pc = "exit" => (stdout = << [kind |-> "about_jc"] >> /\ exit_code = 0)

C6_Witness ==
    /\ argv = HelpAbout
    /\ pc = "exit"
    /\ stdout = << [kind |-> "about_jc"] >>

\* C7: once main() has ended with 'a', 'h' or 'v' among the options, exactly
\* one payload was printed (about if 'a'; otherwise help if 'h'; otherwise
\* version) and the exit code is 0.
C7_MetaPrecedence ==
    (pc = "exit" /\ (In("a", options) \/ In("h", options) \/ In("v", options))) =>
        /\ exit_code = 0
        /\ Len(stdout) = 1
        /\ stdout[1].kind \in
              (IF In("a", options) THEN {"about_jc"}
               ELSE IF In("h", options) THEN {"helptext", "doc_text"}
               ELSE {"versiontext"})

\* C8: combined_exit_code(x, y) = min(255, x + y), which is in 0..255, and
\* combining x, y and z gives the same code whichever pair is combined first.
C8_CappedSum ==
    pc = "returned" =>
        /\ xy = Min(255, x + y)
        /\ xy \in 0..255
        /\ xy_z = x_yz

C8_Witness ==
    /\ pc = "returned"
    /\ x + y < 255
    /\ y + z < 255
    /\ x + y + z > 255
    /\ xy_z = 255

\* the option characters of the single-dash arguments that precede the first
\* argument not beginning with a dash
RECURSIVE leading_options(_)
leading_options(args) ==
    IF args = <<>> \/ ~startswith(Head(args), <<"-">>) THEN <<>>
    ELSE (IF startswith(Head(args), <<"-", "-">>) THEN <<>> ELSE Tail(Head(args)))
         \o leading_options(Tail(args))

\* C9: when the leading options include 'h', 'a' or 'v', magic_parser returns
\* non-magic with no command, no command is ever run, standard input is never
\* read, and the run ends with exit code 0 and one payload printed.
C9_MetaShortCircuits ==
    LET leading == leading_options(Tail(argv)) IN
    (In("h", leading) \/ In("a", leading) \/ In("v", leading)) =>
        /\ AfterMagic => (~valid_command /\ run_command = None)
        /\ spawned = <<>>
        /\ ~stdin_read
        /\ pc = "exit" => (exit_code = 0 /\ Len(stdout) = 1)

\* the arguments from the first one that does not begin with a dash
RECURSIVE command_of(_)
command_of(args) ==
    IF args = <<>> \/ ~startswith(Head(args), <<"-">>) THEN args
    ELSE command_of(Tail(args))

\* C10: when magic_parser finds a converter, the command it returns, and the
\* one command that is run, is the suffix of argv[1:] from the first argument
\* that does not begin with a dash, token for token.
C10_CommandSurvives ==
    (AfterMagic /\ valid_command) =>
        /\ run_command = command_of(Tail(argv))
        /\ spawned = << command_of(Tail(argv)) >>

====
